---- MODULE Spec2Model ----
(***************************************************************************)
(* Model of the moqt-transport session and track manager                   *)
(* (packages/moqt-transport/src/session.rs, track.rs).                     *)
(*                                                                         *)
(* Callers are threads.  A call is an operation name plus arguments; each  *)
(* step of a call is one access to shared state: a critical section under  *)
(* a Mutex / RwLock, or one atomic load, store or fetch_add.  The code     *)
(* between two such accesses is local and is folded into the step before.  *)
(***************************************************************************)
EXTENDS Integers, Sequences, FiniteSets, TLC

(* ---------------------------- bounds ----------------------------------- *)
NumThreads == 2          \* concurrent callers in SpecSession and SpecTrack
MaxId == 2               \* request-id limits carried by MAX_REQUEST_ID are 0..MaxId
MaxAlias == 2            \* track aliases are 1..MaxAlias
MaxCalls == 4            \* calls made in one behaviour of SpecSession and SpecTrack
MaxCallsSeq == 5         \* calls made in one behaviour of SpecSeq

Threads == 1..NumThreads
Names == {"audio", "video"}
Aliases == 1..MaxAlias
Limits == 0..MaxId
RequestIds == 0..MaxId

(* ---------------------------- values ----------------------------------- *)
None == <<>>
Some(x) == <<x>>

Ok(v) == [tag |-> "Ok", val |-> v]
ProtocolViolation(reason) == [tag |-> "ProtocolViolation", val |-> <<reason>>]
DuplicateTrackAlias(alias) == [tag |-> "DuplicateTrackAlias", val |-> <<alias>>]
TooManyRequests == [tag |-> "TooManyRequests", val |-> <<>>]
NoResult == [tag |-> "none", val |-> <<>>]

NoArgs == [name |-> "", alias |-> 0, id |-> 0, uri |-> FALSE, is_server |-> FALSE]
NoLocals == [next |-> 0, current |-> 0, name |-> "", request_id |-> 0]
NoPre == [received |-> FALSE, bound |-> FALSE, req |-> None]
NoCall == [op |-> "none", arg |-> NoArgs, pre |-> NoPre, res |-> NoResult]

TrackState(name) == [name |-> name, alias |-> None, subscribers |-> <<>>]

(* ---------------------------- state ------------------------------------ *)
VARIABLES
    state,              \* Session.state
    received_goaway,    \* Session.received_goaway
    session_max,        \* Session.max_request_id
    tracks,             \* TrackManager.tracks : name -> TrackState
    aliases,            \* TrackManager.aliases : alias -> name
    requests,           \* TrackManager.requests : request id -> name
    request_counter,    \* TrackManager.request_counter
    max_request_id,     \* TrackManager.max_request_id
    pc,                 \* position of each thread in its call
    op,                 \* operation each thread is in (or has just returned from)
    arg,                \* arguments of that call
    loc,                \* local variables of that call
    pre,                \* what the call saw in the shared state when it started
    last,               \* the call that has just returned: operation, arguments, result
    calls,              \* number of calls started
    entering,           \* the thread whose call has not made its first step yet, or 0
    goaway_oks,         \* number of handle_goaway calls that returned Ok
    returned,           \* request ids handed out by fetch_add, in order
    lookups,            \* request id -> handle_subscribe_ok calls that found it
    item,               \* the value handed to an encoder
    buf,                \* the BytesMut an encoder writes into and a decoder reads from
    before,             \* buf as it was when the last encode or decode was called
    cres,               \* what the last encode or decode returned
    cpc,                \* which codec call comes next
    wire,               \* bytes encoded onto the control stream and not yet delivered
    stream,             \* all bytes encoded onto the control stream
    frames,             \* number of ControlMessageCodec::encode calls made
    decoded,            \* the messages ControlMessageCodec::decode has returned, in order
    control_tx,         \* messages in the channel between Session.control_tx and its receiver
    control_rx,         \* the receiver Session::new returned: "open" or "dropped"
    sent,               \* the last send_control call: its message and what it returned
    sends,              \* number of send_control calls made
    incoming_unis,      \* streams sent to B's MockTransport.incoming_unis
    incoming_bis,       \* pairs of streams sent to B's MockTransport.incoming_bis
    inbox,              \* DuplexStream -> bytes its peer has written and it has not read
    shut,               \* the DuplexStreams whose write side has been shut down
    halves,             \* endpoint -> the read and write streams it holds
    wpc,                \* endpoint -> position of its writer
    rpc,                \* endpoint -> position of its read_to_end
    wr,                 \* endpoint -> number of bytes of its payload written
    rd,                 \* endpoint -> bytes read_to_end has collected
    outgoing            \* endpoint -> the bytes it writes

sessionVars == <<state, received_goaway, session_max>>
trackVars == <<tracks, aliases, requests, request_counter, max_request_id>>
threadVars == <<pc, op, arg, loc, pre, last, calls, entering>>
ghostVars == <<goaway_oks, returned, lookups>>
codecVars == <<item, buf, before, cres, cpc, wire, stream, frames, decoded>>
channelVars == <<control_tx, control_rx, sent, sends>>
mockVars == <<incoming_unis, incoming_bis, inbox, shut, halves, wpc, rpc, wr, rd, outgoing>>
ioVars == <<channelVars, mockVars>>
programVars == <<sessionVars, trackVars, threadVars, ghostVars, ioVars>>
vars == <<programVars, codecVars>>

Endpoints == {"A", "B"}
Ends == {"local", "remote", "r1", "r2", "w1", "w2"}
NoHalves == [read |-> "none", write |-> "none"]

(* the channel of Session::new, no message sent *)
InitChannel ==
    /\ control_tx = <<>>
    /\ control_rx = "open"
    /\ sent = [msg |-> None, res |-> NoResult]
    /\ sends = 0

(* MockTransport::pair: empty channels, no stream opened *)
InitMock ==
    /\ incoming_unis = <<>>
    /\ incoming_bis = <<>>
    /\ inbox = [e \in Ends |-> <<>>]
    /\ shut = {}
    /\ halves = [p \in Endpoints |-> NoHalves]
    /\ wpc = [p \in Endpoints |-> "none"]
    /\ rpc = [p \in Endpoints |-> "none"]
    /\ wr = [p \in Endpoints |-> 0]
    /\ rd = [p \in Endpoints |-> <<>>]
    /\ outgoing = [p \in Endpoints |-> <<>>]

(* Session::new and TrackManager::default *)
InitProgram ==
    /\ InitChannel
    /\ InitMock
    /\ state = "Initializing"
    /\ received_goaway = FALSE
    /\ session_max = 0
    /\ tracks = <<>>
    /\ aliases = <<>>
    /\ requests = <<>>
    /\ request_counter = 0
    /\ max_request_id = 0
    /\ pc = [t \in Threads |-> "idle"]
    /\ op = [t \in Threads |-> "none"]
    /\ arg = [t \in Threads |-> NoArgs]
    /\ loc = [t \in Threads |-> NoLocals]
    /\ pre = [t \in Threads |-> NoPre]
    /\ last = NoCall
    /\ calls = 0
    /\ entering = 0
    /\ goaway_oks = 0
    /\ returned = <<>>
    /\ lookups = [i \in {} |-> 0]

(* no codec call is under way *)
CodecIdle ==
    /\ item = [kind |-> "none"]
    /\ buf = <<>>
    /\ before = <<>>
    /\ cres = NoResult
    /\ cpc = "idle"
    /\ wire = <<>>
    /\ stream = <<>>
    /\ frames = 0
    /\ decoded = <<>>

Init == InitProgram /\ CodecIdle

(* ---------------------------- calls ------------------------------------ *)
SessionInputs ==
    {[NoArgs EXCEPT !.uri = u, !.is_server = s] @@ [op |-> "handle_goaway"] :
        u \in BOOLEAN, s \in BOOLEAN}
    \cup {[NoArgs EXCEPT !.id = i] @@ [op |-> "session_handle_max_request_id"] : i \in Limits}

TrackInputs ==
    {[NoArgs EXCEPT !.name = n] @@ [op |-> "add_track"] : n \in Names}
    \cup {[NoArgs EXCEPT !.alias = a, !.name = n] @@ [op |-> "assign_alias"] :
        a \in Aliases, n \in Names}
    \cup {NoArgs @@ [op |-> "new_request_id"]}
    \cup {[NoArgs EXCEPT !.name = n, !.alias = a] @@ [op |-> "set_track_alias"] :
        n \in Names, a \in Aliases}
    \cup {[NoArgs EXCEPT !.alias = a] @@ [op |-> "resolve_alias"] : a \in Aliases}
    \cup {[NoArgs EXCEPT !.id = i] @@ [op |-> "handle_max_request_id"] : i \in Limits}
    \cup {[NoArgs EXCEPT !.name = n] @@ [op |-> "subscribe_track"] : n \in Names}
    \cup {[NoArgs EXCEPT !.id = i, !.alias = a] @@ [op |-> "handle_subscribe_ok"] :
        i \in RequestIds, a \in Aliases}

Inputs == SessionInputs \cup TrackInputs

Entry(o) ==
    CASE o = "handle_goaway" -> "hg_received"
      [] o = "session_handle_max_request_id" -> "shm_lock"
      [] o = "add_track" -> "add_track"
      [] o = "assign_alias" -> "assign_alias"
      [] o = "new_request_id" -> "nr_load_counter"
      [] o = "set_track_alias" -> "assign_alias"
      [] o = "resolve_alias" -> "resolve_alias"
      [] o = "handle_max_request_id" -> "hm_load"
      [] o = "subscribe_track" -> "add_track"
      [] o = "handle_subscribe_ok" -> "hso_remove"

(* what a call finds when it starts: whether a GOAWAY was already received,
   whether its alias is already bound, the name its request id stands for *)
Snapshot(in) ==
    [received |-> in.op = "handle_goaway" /\ received_goaway,
     bound |-> in.alias \in DOMAIN aliases,
     req |-> IF in.op = "handle_subscribe_ok" /\ in.id \in DOMAIN requests
             THEN Some(requests[in.id]) ELSE None]

(* A call starts with its first access to shared state: once a thread has
   made a call, it makes that call's first step before any other thread moves.
   Idle threads are interchangeable: the first of them makes the call. *)
Call(t, limit, inputs) ==
    /\ pc[t] = "idle"
    /\ entering = 0
    /\ entering' = t
    /\ \A u \in Threads : u < t => pc[u] # "idle"
    /\ calls < limit
    /\ \E in \in inputs :
        /\ op' = [op EXCEPT ![t] = in.op]
        /\ arg' = [arg EXCEPT ![t] = [f \in DOMAIN NoArgs |-> in[f]]]
        /\ pc' = [pc EXCEPT ![t] = Entry(in.op)]
        /\ pre' = [pre EXCEPT ![t] = Snapshot(in)]
    /\ loc' = [loc EXCEPT ![t] = NoLocals]
    /\ calls' = calls + 1
    /\ last' = NoCall
    /\ UNCHANGED <<sessionVars, trackVars, ghostVars, codecVars, ioVars>>

(* the call of thread t returns r *)
Return(t, r) ==
    /\ last' = [op |-> op[t], arg |-> arg[t], pre |-> pre[t], res |-> r]
    /\ pc' = [pc EXCEPT ![t] = "idle"]
    /\ op' = [op EXCEPT ![t] = "none"]
    /\ arg' = [arg EXCEPT ![t] = NoArgs]
    /\ loc' = [loc EXCEPT ![t] = NoLocals]
    /\ pre' = [pre EXCEPT ![t] = NoPre]
    /\ entering' = 0
    /\ UNCHANGED <<calls, codecVars, ioVars>>

(* the call of thread t goes on at label *)
Goto(t, label, locals) ==
    /\ pc' = [pc EXCEPT ![t] = label]
    /\ loc' = [loc EXCEPT ![t] = locals]
    /\ entering' = 0
    /\ UNCHANGED <<op, arg, pre, last, calls, codecVars, ioVars>>

(* thread t is at label and may move *)
At(t, label) == pc[t] = label /\ entering \in {0, t}

(* ---------------------------- Session ---------------------------------- *)
(* the critical section without line 57: the flag is tested but never set *)
GoawayLockNeverSet(received) == [multiple |-> received, received |-> received]

(* session.rs:50-58: the critical section on received_goaway *)
GoawayLock(received) == [multiple |-> received, received |-> TRUE]

(* line 60 without the is_server test *)
UriFromAnyone(is_server, uri) == uri

(* session.rs:60 *)
UriFromClient(is_server, uri) == is_server /\ uri

HandleGoawayReceived(t) ==
    /\ At(t, "hg_received")
    /\ LET r == GoawayLock(received_goaway) IN
        IF r.multiple
        THEN /\ Return(t, ProtocolViolation("multiple GOAWAY messages"))
             /\ UNCHANGED received_goaway
        ELSE /\ received_goaway' = r.received
             /\ IF UriFromClient(arg[t].is_server, arg[t].uri)
                THEN Return(t, ProtocolViolation("GOAWAY from client contained URI"))
                ELSE Goto(t, "hg_state", loc[t])
    /\ UNCHANGED <<state, session_max, trackVars, ghostVars>>

(* lines 66-67 without the assignment *)
GoawayStateKept(s) == s

(* session.rs:66-67: *state = State::Closing *)
GoawayState(s) == "Closing"

HandleGoawayState(t) ==
    /\ At(t, "hg_state")
    /\ state' = GoawayState(state)
    /\ goaway_oks' = goaway_oks + 1
    /\ Return(t, Ok(<<>>))
    /\ UNCHANGED <<received_goaway, session_max, trackVars, returned, lookups>>

(* line 78 with < for <= *)
MaxRequestIdStrictlyDecreased(new_max, current) == new_max < current

(* session.rs:78 *)
MaxRequestIdDecreased(new_max, current) == new_max <= current

(* the session and the track manager sharing one limit: line 83 also stores
   into the track manager's max_request_id *)
SessionHandleMaxRequestIdShared(t) ==
    /\ At(t, "shm_lock")
    /\ IF MaxRequestIdDecreased(arg[t].id, session_max)
       THEN /\ Return(t, ProtocolViolation("MAX_REQUEST_ID decreased"))
            /\ UNCHANGED <<session_max, max_request_id>>
       ELSE /\ session_max' = arg[t].id
            /\ max_request_id' = arg[t].id
            /\ Return(t, Ok(<<>>))
    /\ UNCHANGED <<state, received_goaway, tracks, aliases, requests, request_counter,
                   ghostVars>>

(* session.rs:76-85 *)
SessionHandleMaxRequestId(t) ==
    /\ At(t, "shm_lock")
    /\ IF MaxRequestIdDecreased(arg[t].id, session_max)
       THEN /\ Return(t, ProtocolViolation("MAX_REQUEST_ID decreased"))
            /\ UNCHANGED session_max
       ELSE /\ session_max' = arg[t].id
            /\ Return(t, Ok(<<>>))
    /\ UNCHANGED <<state, received_goaway, trackVars, ghostVars>>

(* ---------------------------- TrackManager ----------------------------- *)
(* HashMap::insert for entry(name).or_insert_with(..): a fresh TrackState
   takes the place of the one that is there *)
InsertTrackReplace(trks, name) ==
    (name :> TrackState(name)) @@ [n \in DOMAIN trks \ {name} |-> trks[n]]

(* track.rs:49-55: entry(name).or_insert_with(..) *)
InsertTrack(trks, name) ==
    IF name \in DOMAIN trks THEN trks ELSE (name :> TrackState(name)) @@ trks

AddTrack(t) ==
    /\ At(t, "add_track")
    /\ tracks' = InsertTrack(tracks, arg[t].name)
    /\ IF op[t] = "subscribe_track"
       THEN Goto(t, "nr_load_counter", loc[t])
       ELSE Return(t, Ok(<<>>))
    /\ UNCHANGED <<sessionVars, aliases, requests, request_counter, max_request_id, ghostVars>>

(* the critical section without the contains_key test: insert overwrites *)
InsertAliasOverwrite(als, alias, name) ==
    [duplicate |-> FALSE, aliases |-> (alias :> name) @@ als]

(* track.rs:59-64: the critical section on aliases *)
InsertAlias(als, alias, name) ==
    IF alias \in DOMAIN als
    THEN [duplicate |-> TRUE, aliases |-> als]
    ELSE [duplicate |-> FALSE, aliases |-> (alias :> name) @@ als]

(* the name a call binds: the argument, or the name handle_subscribe_ok took
   out of requests (track.rs:135) *)
BoundName(t) == IF op[t] = "handle_subscribe_ok" THEN loc[t].name ELSE arg[t].name

AssignAlias(t) ==
    /\ At(t, "assign_alias")
    /\ LET r == InsertAlias(aliases, arg[t].alias, BoundName(t)) IN
        /\ aliases' = r.aliases
        /\ IF r.duplicate
           THEN Return(t, DuplicateTrackAlias(arg[t].alias))
           ELSE IF op[t] = "assign_alias"
                THEN Return(t, Ok(<<>>))
                ELSE Goto(t, "sta_tracks", loc[t])
    /\ UNCHANGED <<sessionVars, tracks, requests, request_counter, max_request_id, ghostVars>>

(* lines 86-89 left out: the TrackState keeps its alias *)
SetAliasForgotten(trks, name, alias) == trks

(* track.rs:86-89 *)
SetAlias(trks, name, alias) ==
    IF name \in DOMAIN trks
    THEN [trks EXCEPT ![name].alias = Some(alias)]
    ELSE trks

SetTrackAlias(t) ==
    /\ At(t, "sta_tracks")
    /\ tracks' = SetAlias(tracks, BoundName(t), arg[t].alias)
    /\ Return(t, Ok(<<>>))
    /\ UNCHANGED <<sessionVars, aliases, requests, request_counter, max_request_id, ghostVars>>

(* track.rs:93-96 *)
Lookup(als, alias) == IF alias \in DOMAIN als THEN Some(als[alias]) ELSE None

ResolveAlias(t) ==
    /\ At(t, "resolve_alias")
    /\ Return(t, [tag |-> "resolved", val |-> Lookup(aliases, arg[t].alias)])
    /\ UNCHANGED <<sessionVars, trackVars, ghostVars>>

(* track.rs:70 *)
NewRequestIdLoadCounter(t) ==
    /\ At(t, "nr_load_counter")
    /\ Goto(t, "nr_load_max", [loc[t] EXCEPT !.next = request_counter])
    /\ UNCHANGED <<sessionVars, trackVars, ghostVars>>

(* line 72 with > for >= *)
LimitExceeded(next, max) == next > max

(* track.rs:72 *)
LimitReached(next, max) == next >= max

(* track.rs:71-74 *)
NewRequestIdLoadMax(t) ==
    /\ At(t, "nr_load_max")
    /\ IF LimitReached(loc[t].next, max_request_id)
       THEN Return(t, TooManyRequests)
       ELSE Goto(t, "nr_fetch_add", loc[t])
    /\ UNCHANGED <<sessionVars, trackVars, ghostVars>>

(* load for fetch_add: the counter is read and not incremented *)
FetchAddLoad(counter) == [previous |-> counter, counter |-> counter]

(* track.rs:75: fetch_add returns the previous value *)
FetchAdd(counter) == [previous |-> counter, counter |-> counter + 1]

NewRequestIdFetchAdd(t) ==
    /\ At(t, "nr_fetch_add")
    /\ LET r == FetchAdd(request_counter) IN
        /\ request_counter' = r.counter
        /\ returned' = Append(returned, r.previous)
        /\ IF op[t] = "subscribe_track"
           THEN Goto(t, "st_push", [loc[t] EXCEPT !.request_id = r.previous])
           ELSE Return(t, Ok(<<r.previous>>))
    /\ UNCHANGED <<sessionVars, tracks, aliases, requests, max_request_id, goaway_oks, lookups>>

(* track.rs:101 *)
HandleMaxRequestIdLoad(t) ==
    /\ At(t, "hm_load")
    /\ IF MaxRequestIdDecreased(arg[t].id, max_request_id)
       THEN Return(t, ProtocolViolation("MAX_REQUEST_ID decreased"))
       ELSE Goto(t, "hm_store", [loc[t] EXCEPT !.current = max_request_id])
    /\ UNCHANGED <<sessionVars, trackVars, ghostVars>>

(* track.rs:107 *)
HandleMaxRequestIdStore(t) ==
    /\ At(t, "hm_store")
    /\ max_request_id' = arg[t].id
    /\ Return(t, Ok(<<>>))
    /\ UNCHANGED <<sessionVars, tracks, aliases, requests, request_counter, ghostVars>>

(* track.rs:117-120 *)
PushSubscriber(trks, name, sink) ==
    IF name \in DOMAIN trks
    THEN [trks EXCEPT ![name].subscribers = Append(@, sink)]
    ELSE trks

SubscribeTrackPush(t) ==
    /\ At(t, "st_push")
    /\ tracks' = PushSubscriber(tracks, arg[t].name, loc[t].request_id)
    /\ Goto(t, "st_insert", loc[t])
    /\ UNCHANGED <<sessionVars, aliases, requests, request_counter, max_request_id, ghostVars>>

(* track.rs:122-123 *)
SubscribeTrackInsert(t) ==
    /\ At(t, "st_insert")
    /\ requests' = (loc[t].request_id :> arg[t].name) @@ requests
    /\ Return(t, Ok(<<loc[t].request_id>>))
    /\ UNCHANGED <<sessionVars, tracks, aliases, request_counter, max_request_id, ghostVars>>

(* HashMap::get for HashMap::remove: the entry stays *)
GetRequest(reqs, id) ==
    IF id \in DOMAIN reqs
    THEN [name |-> Some(reqs[id]), requests |-> reqs]
    ELSE [name |-> None, requests |-> reqs]

(* track.rs:129-130: HashMap::remove under the write lock *)
RemoveRequest(reqs, id) ==
    IF id \in DOMAIN reqs
    THEN [name |-> Some(reqs[id]), requests |-> [i \in DOMAIN reqs \ {id} |-> reqs[i]]]
    ELSE [name |-> None, requests |-> reqs]

Bump(f, k) == IF k \in DOMAIN f THEN [f EXCEPT ![k] = @ + 1] ELSE (k :> 1) @@ f

(* track.rs:128-135 *)
HandleSubscribeOkRemove(t) ==
    /\ At(t, "hso_remove")
    /\ LET r == RemoveRequest(requests, arg[t].id) IN
        /\ requests' = r.requests
        /\ IF r.name = None
           THEN /\ Return(t, ProtocolViolation("unknown request"))
                /\ UNCHANGED lookups
           ELSE /\ Goto(t, "assign_alias", [loc[t] EXCEPT !.name = r.name[1]])
                /\ lookups' = Bump(lookups, arg[t].id)
    /\ UNCHANGED <<sessionVars, tracks, aliases, request_counter, max_request_id, goaway_oks, returned>>

(* ---------------------------- specification ---------------------------- *)
SessionStep(t) ==
    \/ HandleGoawayReceived(t)
    \/ HandleGoawayState(t)
    \/ SessionHandleMaxRequestId(t)

TrackStep(t) ==
    \/ AddTrack(t)
    \/ AssignAlias(t)
    \/ SetTrackAlias(t)
    \/ ResolveAlias(t)
    \/ NewRequestIdLoadCounter(t)
    \/ NewRequestIdLoadMax(t)
    \/ NewRequestIdFetchAdd(t)
    \/ HandleMaxRequestIdLoad(t)
    \/ HandleMaxRequestIdStore(t)
    \/ SubscribeTrackPush(t)
    \/ SubscribeTrackInsert(t)
    \/ HandleSubscribeOkRemove(t)

(* concurrent callers of one Session *)
NextSession == \E t \in Threads : Call(t, MaxCalls, SessionInputs) \/ SessionStep(t)

SpecSession == Init /\ [][NextSession]_vars

(* concurrent callers of one TrackManager *)
NextTrack == \E t \in Threads : Call(t, MaxCalls, TrackInputs) \/ TrackStep(t)

SpecTrack == Init /\ [][NextTrack]_vars

(* a single caller of a Session and its TrackManager: every call runs to
   completion before the next starts *)
NextSeq == Call(1, MaxCallsSeq, Inputs) \/ SessionStep(1) \/ TrackStep(1)

SpecSeq == Init /\ [][NextSeq]_vars

(* ---------------------------- codec: VarInt ---------------------------- *)
(* A u64 is the tuple of its eight bytes, most significant first, so that
   values up to 2^64 - 1 keep their width.  A buffer (BytesMut) is a sequence
   of bytes. *)
Io(kind, text) == [tag |-> "Io", val |-> <<kind, text>>]
VarIntRange == [tag |-> "VarIntRange", val |-> <<>>]
UnknownMessageType == [tag |-> "UnknownMessageType", val |-> <<>>]

(* the u64 of a small number n, as in `buf.len() as u64` *)
U64(n) == <<0, 0, 0, 0, (n \div 16777216) % 256, (n \div 65536) % 256, (n \div 256) % 256, n % 256>>

(* `v as usize` where it is compared with a buffer length or counts loop
   rounds: exact below 2^24, and 2^24 for every larger value, which is more
   than any buffer here holds *)
AsUsize(v) ==
    IF \A i \in 1..5 : v[i] = 0
    THEN v[6] * 65536 + v[7] * 256 + v[8]
    ELSE 16777216

(* (item >> shift) as u8, for the shifts 0, 8, ..., 56 *)
ShrU8(v, shift) == v[8 - shift \div 8]

RECURSIVE OrBits(_, _, _)
OrBits(a, b, n) ==
    IF n = 0 THEN 0
    ELSE (IF a % 2 = 1 \/ b % 2 = 1 THEN 1 ELSE 0) + 2 * OrBits(a \div 2, b \div 2, n - 1)

(* a | b on two bytes *)
BitOr(a, b) == OrBits(a, b, 8)

(* lines 13-23 with <= for <: 2^bits itself is taken as fitting *)
BelowOrEqual(v, bits) ==
    LET n == (bits + 2) \div 8
    IN  /\ \A i \in 1..(8 - n) : v[i] = 0
        /\ \/ v[9 - n] < 64
           \/ v[9 - n] = 64 /\ \A i \in (10 - n)..8 : v[i] = 0

(* varint.rs:13,15,18,23: item < (1 << bits), for bits in {6, 14, 30, 62} *)
Below(v, bits) ==
    LET n == (bits + 2) \div 8
    IN  /\ \A i \in 1..(8 - n) : v[i] = 0
        /\ v[9 - n] < 64

(* varint.rs:12-36: VarInt::encode(item, dst) *)
VarIntEncode(v, dst) ==
    IF Below(v, 6) THEN
        [res |-> Ok(<<>>), buf |-> dst \o <<ShrU8(v, 0)>>]
    ELSE IF Below(v, 14) THEN
        [res |-> Ok(<<>>), buf |-> dst \o <<BitOr(64, ShrU8(v, 8)), ShrU8(v, 0)>>]
    ELSE IF Below(v, 30) THEN
        [res |-> Ok(<<>>),
         buf |-> dst \o <<BitOr(128, ShrU8(v, 24)), ShrU8(v, 16), ShrU8(v, 8), ShrU8(v, 0)>>]
    ELSE IF Below(v, 62) THEN
        [res |-> Ok(<<>>),
         buf |-> dst \o <<BitOr(192, ShrU8(v, 56)), ShrU8(v, 48), ShrU8(v, 40), ShrU8(v, 32),
                          ShrU8(v, 24), ShrU8(v, 16), ShrU8(v, 8), ShrU8(v, 0)>>]
    ELSE [res |-> VarIntRange, buf |-> dst]

(* line 50 with the prefix read as a byte count less one *)
VarIntLenLinear(prefix) == prefix + 1

(* varint.rs:49-50: len = 1 << prefix *)
VarIntLen(prefix) == 2 ^ prefix

(* varint.rs:56-79: (first & 0x3f) and the following len - 1 bytes, shifted
   into place and or-ed *)
VarIntValue(src, len) ==
    [i \in 1..8 |-> IF i < 9 - len THEN 0
                    ELSE IF i = 9 - len THEN src[1] % 64
                    ELSE src[i - (8 - len)]]

(* BytesMut::split_to(n): the first n bytes, and what stays in the buffer *)
SplitTo(src, n) == [head |-> SubSeq(src, 1, n), rest |-> SubSeq(src, n + 1, Len(src))]

(* varint.rs:43-83: VarInt::decode(src) *)
VarIntDecode(src) ==
    IF src = <<>> THEN [res |-> Ok(None), buf |-> src]
    ELSE LET len == VarIntLen(src[1] \div 64)
         IN  IF Len(src) < len THEN [res |-> Ok(None), buf |-> src]
             ELSE [res |-> Ok(Some(VarIntValue(src, len))), buf |-> SplitTo(src, len).rest]

(* ---------------------------- codec: messages -------------------------- *)
(* what an encode function does to its buffer, in order: encode a varint,
   put_u8, put_slice, or return an error *)
V(v) == [put |-> "varint", v |-> v]
U8(b) == [put |-> "u8", v |-> b]
Slice(bytes) == [put |-> "slice", v |-> bytes]
Fail(e) == [put |-> "fail", v |-> e]

(* the statements of an encode function run in order; `?` and `return Err`
   end it with what was written so far left in the buffer *)
RECURSIVE PutAll(_, _)
PutAll(fields, dst) ==
    IF fields = <<>> THEN [res |-> Ok(<<>>), buf |-> dst]
    ELSE LET f == Head(fields)
             w == CASE f.put = "varint" -> VarIntEncode(f.v, dst)
                    [] f.put = "u8" -> [res |-> Ok(<<>>), buf |-> Append(dst, f.v)]
                    [] f.put = "slice" -> [res |-> Ok(<<>>), buf |-> dst \o f.v]
                    [] f.put = "fail" -> [res |-> f.v, buf |-> dst]
         IN  IF w.res.tag = "Ok" THEN PutAll(Tail(fields), w.buf) ELSE w

(* vi.decode(buf)?.ok_or_else(|| IoError::new(UnexpectedEof, what))? *)
ReadVarInt(src, what) ==
    LET d == VarIntDecode(src)
    IN  IF Len(d.res.val) = 0 THEN [res |-> Io("UnexpectedEof", what), buf |-> d.buf] ELSE d

(* a length or count just read with ReadVarInt, `as usize` *)
Count(r) == AsUsize(r.res.val[1])

(* buf.split_to(len) for a length len just read with ReadVarInt *)
SplitCounted(r) == SplitTo(r.buf, Count(r))

(* model.rs:83-88: Location::encode *)
LocationFields(l) == <<V(l.group), V(l.object)>>

(* model.rs:90-101: Location::decode *)
LocationDecode(src) ==
    LET g == ReadVarInt(src, "location group")
        o == ReadVarInt(g.buf, "location object")
    IN  IF g.res.tag # "Ok" THEN g
        ELSE IF o.res.tag # "Ok" THEN o
        ELSE [res |-> Ok(<<[group |-> g.res.val[1], object |-> o.res.val[1]]>>), buf |-> o.buf]

(* publish.rs:57-62, fetch_ok.rs:25-30: the parameter count and, for each
   parameter, its type, the length of its value and the value *)
RECURSIVE ParameterFields(_)
ParameterFields(ps) ==
    IF ps = <<>> THEN <<>>
    ELSE <<V(Head(ps).parameter_type), V(U64(Len(Head(ps).value))), Slice(Head(ps).value)>>
         \o ParameterFields(Tail(ps))

(* publish.rs:129-145, fetch_ok.rs:72-88: the loop over params_len *)
RECURSIVE ParametersDecode(_, _, _)
ParametersDecode(n, src, acc) ==
    IF n = 0 THEN [res |-> Ok(<<acc>>), buf |-> src]
    ELSE LET ty == ReadVarInt(src, "parameter type")
             len == ReadVarInt(ty.buf, "parameter len")
             value == SplitCounted(len)
         IN  IF ty.res.tag # "Ok" THEN ty
             ELSE IF len.res.tag # "Ok" THEN len
             ELSE IF Len(len.buf) < Count(len)
                  THEN [res |-> Io("UnexpectedEof", "parameter value"), buf |-> len.buf]
             ELSE ParametersDecode(n - 1, value.rest,
                      Append(acc, [parameter_type |-> ty.res.val[1], value |-> value.head]))

(* the parameters that follow a count n just read with ReadVarInt *)
ParametersAfter(n) == ParametersDecode(Count(n), n.buf, <<>>)

(* publish.rs:110-114: the location is there when the byte before it is 1;
   flag is that byte split off the buffer *)
LocationIf(flag) ==
    IF flag.head[1] = 1 THEN LocationDecode(flag.rest) ELSE [res |-> Ok(None), buf |-> flag.rest]

(* max_request_id.rs:28-34, requests_blocked.rs: one varint *)
MaxRequestIdEncode(m, dst) == PutAll(<<V(m.request_id)>>, dst)

MaxRequestIdDecode(src) ==
    LET id == ReadVarInt(src, "request id")
    IN  IF id.res.tag # "Ok" THEN id
        ELSE [res |-> Ok(<<[type |-> "MaxRequestId", request_id |-> id.res.val[1]]>>),
              buf |-> id.buf]

RequestsBlockedEncode(m, dst) == PutAll(<<V(m.maximum_request_id)>>, dst)

RequestsBlockedDecode(src) ==
    LET id == ReadVarInt(src, "maximum request id")
    IN  IF id.res.tag # "Ok" THEN id
        ELSE [res |-> Ok(<<[type |-> "RequestsBlocked", maximum_request_id |-> id.res.val[1]]>>),
              buf |-> id.buf]

(* fetch_ok.rs:16-33: FetchOk::encode *)
FetchOkEncode(m, dst) ==
    PutAll(<<V(m.request_id), U8(m.group_order), U8(IF m.end_of_track THEN 1 ELSE 0)>>
           \o LocationFields(m.end_location)
           \o <<V(U64(Len(m.parameters)))>> \o ParameterFields(m.parameters), dst)

(* fetch_ok.rs:35-97: FetchOk::decode *)
FetchOkDecode(src) ==
    LET id == ReadVarInt(src, "request id")
        flags == SplitTo(id.buf, 2)
        end_location == LocationDecode(flags.rest)
        n == ReadVarInt(end_location.buf, "parameters len")
        ps == ParametersAfter(n)
    IN  IF id.res.tag # "Ok" THEN id
        ELSE IF Len(id.buf) < 2 THEN [res |-> Io("UnexpectedEof", "flags"), buf |-> id.buf]
        ELSE IF flags.head[1] = 0 \/ flags.head[1] > 2
             THEN [res |-> Io("InvalidData", "invalid group order"), buf |-> flags.rest]
        ELSE IF flags.head[2] \notin {0, 1}
             THEN [res |-> Io("InvalidData", "invalid end of track value"), buf |-> flags.rest]
        ELSE IF end_location.res.tag # "Ok" THEN loc
        ELSE IF n.res.tag # "Ok" THEN n
        ELSE IF ps.res.tag # "Ok" THEN ps
        ELSE [res |-> Ok(<<[type |-> "FetchOk", request_id |-> id.res.val[1],
                            group_order |-> flags.head[1],
                            end_of_track |-> flags.head[2] = 1,
                            end_location |-> end_location.res.val[1],
                            parameters |-> ps.res.val[1]]>>),
              buf |-> ps.buf]

(* String::from_utf8 on a track name.  Names here are ASCII, which is valid
   UTF-8 as it stands; a byte of 0x80 or more has no case. *)
FromUtf8(bytes) == CASE \A i \in DOMAIN bytes : bytes[i] < 128 -> Ok(<<bytes>>)

(* publish.rs:20-65: Publish::encode *)
PublishEncode(m, dst) ==
    PutAll(<<V(m.request_id), V(m.track_namespace),
             V(U64(Len(m.track_name))), Slice(m.track_name),
             V(m.track_alias),
             IF m.group_order = 0 \/ m.group_order > 2
                 THEN Fail(Io("InvalidData", "invalid group order")) ELSE U8(m.group_order),
             IF m.content_exists # 0 /\ m.content_exists # 1
                 THEN Fail(Io("InvalidData", "invalid content exists value"))
                 ELSE U8(m.content_exists)>>
           \o (IF m.content_exists = 1
               THEN IF m.largest # None THEN LocationFields(m.largest[1])
                    ELSE <<Fail(Io("InvalidData", "missing largest location"))>>
               ELSE <<>>)
           \o <<U8(m.forward), V(U64(Len(m.parameters)))>> \o ParameterFields(m.parameters), dst)

(* publish.rs:67-158: Publish::decode *)
PublishDecode(src) ==
    LET id == ReadVarInt(src, "request id")
        ns == ReadVarInt(id.buf, "track namespace")
        name_len == ReadVarInt(ns.buf, "track name len")
        name == SplitCounted(name_len)
        track_name == FromUtf8(name.head)
        alias == ReadVarInt(name.rest, "track alias")
        group_order == SplitTo(alias.buf, 1)
        content_exists == SplitTo(group_order.rest, 1)
        largest == LocationIf(content_exists)
        forward == SplitTo(largest.buf, 1)
        n == ReadVarInt(forward.rest, "parameters len")
        ps == ParametersAfter(n)
    IN  IF id.res.tag # "Ok" THEN id
        ELSE IF ns.res.tag # "Ok" THEN ns
        ELSE IF name_len.res.tag # "Ok" THEN name_len
        ELSE IF Len(name_len.buf) < Count(name_len)
             THEN [res |-> Io("UnexpectedEof", "track name"), buf |-> name_len.buf]
        ELSE IF track_name.tag # "Ok" THEN [res |-> track_name, buf |-> name.rest]
        ELSE IF alias.res.tag # "Ok" THEN alias
        ELSE IF Len(alias.buf) < 2 THEN [res |-> Io("UnexpectedEof", "flags"), buf |-> alias.buf]
        ELSE IF group_order.head[1] = 0 \/ group_order.head[1] > 2
             THEN [res |-> Io("InvalidData", "invalid group order"), buf |-> group_order.rest]
        ELSE IF content_exists.head[1] # 0 /\ content_exists.head[1] # 1
             THEN [res |-> Io("InvalidData", "invalid content exists value"),
                   buf |-> content_exists.rest]
        ELSE IF largest.res.tag # "Ok" THEN largest
        ELSE IF Len(largest.buf) < 1
             THEN [res |-> Io("UnexpectedEof", "forward"), buf |-> largest.buf]
        ELSE IF forward.head[1] # 0 /\ forward.head[1] # 1
             THEN [res |-> Io("InvalidData", "invalid forward value"), buf |-> forward.rest]
        ELSE IF n.res.tag # "Ok" THEN n
        ELSE IF ps.res.tag # "Ok" THEN ps
        ELSE [res |-> Ok(<<[type |-> "Publish", request_id |-> id.res.val[1],
                            track_namespace |-> ns.res.val[1],
                            track_name |-> track_name.val[1],
                            track_alias |-> alias.res.val[1],
                            group_order |-> group_order.head[1],
                            content_exists |-> content_exists.head[1],
                            largest |-> largest.res.val,
                            forward |-> forward.head[1],
                            parameters |-> ps.res.val[1]]>>),
              buf |-> ps.buf]

(* ---------------------------- codec: SETUP messages -------------------- *)
(* model.rs:11-35: Parameter::encode; a type is even when its last byte is *)
ParameterEncodeFields(p) ==
    <<V(p.parameter_type)>> \o
    IF p.parameter_type[8] % 2 = 0
    THEN IF p.value = <<>> \/ Len(p.value) > 8
         THEN <<Fail(ProtocolViolation("invalid varint parameter value"))>>
         ELSE <<Slice(p.value)>>
    ELSE IF Len(p.value) > 65535
         THEN <<Fail(ProtocolViolation("parameter value length exceeded"))>>
         ELSE <<V(U64(Len(p.value))), Slice(p.value)>>

(* the value of a block whose bindings are computed once, in order *)
Only(S) == CHOOSE x \in S : TRUE

(* model.rs:37-73: Parameter::decode; the value of an even type is the
   varint read, encoded again *)
ParameterDecode(src) ==
    Only({ IF ty.res.tag # "Ok" THEN ty
           ELSE IF ty.res.val[1][8] % 2 = 0
           THEN Only({ IF val.res.tag # "Ok" THEN val
                       ELSE Only({ IF tmp.res.tag # "Ok"
                                   THEN [res |-> tmp.res, buf |-> val.buf]
                                   ELSE [res |-> Ok(<<[parameter_type |-> ty.res.val[1],
                                                       value |-> tmp.buf]>>),
                                         buf |-> val.buf]
                                   : tmp \in {VarIntEncode(val.res.val[1], <<>>)} })
                       : val \in {ReadVarInt(ty.buf, "parameter value")} })
           ELSE Only({ IF len.res.tag # "Ok" THEN len
                       ELSE IF Count(len) > 65535
                            THEN [res |-> ProtocolViolation("parameter value length exceeded"),
                                  buf |-> len.buf]
                       ELSE IF Len(len.buf) < Count(len)
                            THEN [res |-> Io("UnexpectedEof", "parameter value"),
                                  buf |-> len.buf]
                       ELSE [res |-> Ok(<<[parameter_type |-> ty.res.val[1],
                                           value |-> SplitCounted(len).head]>>),
                             buf |-> SplitCounted(len).rest]
                       : len \in {ReadVarInt(ty.buf, "parameter len")} })
           : ty \in {ReadVarInt(src, "parameter type")} })

(* client_setup.rs:47-49: for p in &self.setup_parameters { p.encode(buf)? } *)
RECURSIVE SetupParameterFields(_)
SetupParameterFields(ps) ==
    IF ps = <<>> THEN <<>>
    ELSE ParameterEncodeFields(Head(ps)) \o SetupParameterFields(Tail(ps))

(* client_setup.rs:41-43: each version, a u32, as a varint *)
RECURSIVE VersionFields(_)
VersionFields(vs) ==
    IF vs = <<>> THEN <<>> ELSE <<V(Head(vs))>> \o VersionFields(Tail(vs))

(* client_setup.rs:36-52: ClientSetup::encode *)
ClientSetupEncode(m, dst) ==
    PutAll(<<V(U64(Len(m.supported_versions)))>> \o VersionFields(m.supported_versions)
           \o <<V(U64(Len(m.setup_parameters)))>> \o SetupParameterFields(m.setup_parameters),
           dst)

(* v > u32::MAX as u64 *)
AboveU32(v) == \E i \in 1..4 : v[i] # 0

(* client_setup.rs:65-73: the loop over versions_len *)
RECURSIVE VersionsDecode(_, _, _)
VersionsDecode(n, src, acc) ==
    IF n = 0 THEN [res |-> Ok(<<acc>>), buf |-> src]
    ELSE Only({ IF v.res.tag # "Ok" THEN v
                ELSE IF AboveU32(v.res.val[1]) THEN [res |-> VarIntRange, buf |-> v.buf]
                ELSE VersionsDecode(n - 1, v.buf, Append(acc, v.res.val[1]))
                : v \in {ReadVarInt(src, "version")} })

(* client_setup.rs:81-83: the loop over params_len *)
RECURSIVE SetupParametersDecode(_, _, _)
SetupParametersDecode(n, src, acc) ==
    IF n = 0 THEN [res |-> Ok(<<acc>>), buf |-> src]
    ELSE Only({ IF p.res.tag # "Ok" THEN p
                ELSE SetupParametersDecode(n - 1, p.buf, Append(acc, p.res.val[1]))
                : p \in {ParameterDecode(src)} })

(* client_setup.rs:54-89: ClientSetup::decode *)
ClientSetupDecode(src) ==
    Only({ IF versions_len.res.tag # "Ok" THEN versions_len
           ELSE Only({ IF versions.res.tag # "Ok" THEN versions
                       ELSE Only({ IF params_len.res.tag # "Ok" THEN params_len
                                   ELSE Only({ IF parameters.res.tag # "Ok" THEN parameters
                                               ELSE [res |-> Ok(<<[type |-> "ClientSetup",
                                                         supported_versions |-> versions.res.val[1],
                                                         setup_parameters |-> parameters.res.val[1]]>>),
                                                     buf |-> parameters.buf]
                                               : parameters \in {SetupParametersDecode(
                                                     Count(params_len), params_len.buf, <<>>)} })
                                   : params_len \in {ReadVarInt(versions.buf, "parameters")} })
                       : versions \in {VersionsDecode(Count(versions_len),
                                                      versions_len.buf, <<>>)} })
           : versions_len \in {ReadVarInt(src, "versions")} })

(* server_setup.rs:35-50: ServerSetup::encode; every parameter is written as
   type, length, value *)
ServerSetupEncode(m, dst) ==
    PutAll(<<V(m.selected_version), V(U64(Len(m.setup_parameters)))>>
           \o ParameterFields(m.setup_parameters), dst)

(* server_setup.rs:72-89: the loop over params_len *)
RECURSIVE ServerSetupParameters(_, _, _)
ServerSetupParameters(n, src, acc) ==
    IF n = 0 THEN [res |-> Ok(<<acc>>), buf |-> src]
    ELSE LET ty == ReadVarInt(src, "parameter type")
             len == ReadVarInt(ty.buf, "parameter length")
             value == SplitCounted(len)
         IN  IF ty.res.tag # "Ok" THEN ty
             ELSE IF len.res.tag # "Ok" THEN len
             ELSE IF Len(len.buf) < Count(len)
                  THEN [res |-> Io("UnexpectedEof", "parameter value"), buf |-> len.buf]
             ELSE ServerSetupParameters(n - 1, value.rest,
                      Append(acc, [parameter_type |-> ty.res.val[1], value |-> value.head]))

(* server_setup.rs:52-94: ServerSetup::decode *)
ServerSetupDecode(src) ==
    LET version == ReadVarInt(src, "version")
        params_len == ReadVarInt(version.buf, "parameters")
        parameters == ServerSetupParameters(Count(params_len), params_len.buf, <<>>)
    IN  IF version.res.tag # "Ok" THEN version
        ELSE IF AboveU32(version.res.val[1]) THEN [res |-> VarIntRange, buf |-> version.buf]
        ELSE IF params_len.res.tag # "Ok" THEN params_len
        ELSE IF parameters.res.tag # "Ok" THEN parameters
        ELSE [res |-> Ok(<<[type |-> "ServerSetup",
                            selected_version |-> version.res.val[1],
                            setup_parameters |-> parameters.res.val[1]]>>),
              buf |-> parameters.buf]

(* the encode and decode of each message type modelled *)
MessageEncode(m, dst) ==
    CASE m.type = "MaxRequestId" -> MaxRequestIdEncode(m, dst)
      [] m.type = "RequestsBlocked" -> RequestsBlockedEncode(m, dst)
      [] m.type = "FetchOk" -> FetchOkEncode(m, dst)
      [] m.type = "Publish" -> PublishEncode(m, dst)
      [] m.type = "ClientSetup" -> ClientSetupEncode(m, dst)
      [] m.type = "ServerSetup" -> ServerSetupEncode(m, dst)

(* the decoders of the other message types are outside this model: a frame
   of such a type ends the reading with no message and no error of the
   program's *)
MessageDecode(type, src) ==
    CASE type = "MaxRequestId" -> MaxRequestIdDecode(src)
      [] type = "RequestsBlocked" -> RequestsBlockedDecode(src)
      [] type = "FetchOk" -> FetchOkDecode(src)
      [] type = "Publish" -> PublishDecode(src)
      [] type = "ClientSetup" -> ClientSetupDecode(src)
      [] type = "ServerSetup" -> ServerSetupDecode(src)
      [] OTHER -> [res |-> [tag |-> "outside", val |-> <<type>>], buf |-> src]

(* ---------------------------- codec: frames ---------------------------- *)
(* message.rs:106-136: enum ControlMessageType, by code *)
ControlMessageType ==
    (32 :> "ClientSetup") @@ (33 :> "ServerSetup") @@ (16 :> "Goaway")
    @@ (21 :> "MaxRequestId") @@ (26 :> "RequestsBlocked") @@ (3 :> "Subscribe")
    @@ (4 :> "SubscribeOk") @@ (5 :> "SubscribeError") @@ (2 :> "SubscribeUpdate")
    @@ (10 :> "Unsubscribe") @@ (11 :> "SubscribeDone") @@ (29 :> "Publish")
    @@ (30 :> "PublishOk") @@ (31 :> "PublishError") @@ (22 :> "Fetch")
    @@ (24 :> "FetchOk") @@ (25 :> "FetchError") @@ (23 :> "FetchCancel")
    @@ (13 :> "TrackStatusRequest") @@ (14 :> "TrackStatus") @@ (6 :> "Announce")
    @@ (7 :> "AnnounceOk") @@ (8 :> "AnnounceError") @@ (9 :> "Unannounce")
    @@ (12 :> "AnnounceCancel") @@ (17 :> "SubscribeAnnounces")
    @@ (18 :> "SubscribeAnnouncesOk") @@ (19 :> "SubscribeAnnouncesError")
    @@ (20 :> "UnsubscribeAnnounces")

(* ControlMessageType::X as u64 *)
TypeCode(type) == CHOOSE c \in DOMAIN ControlMessageType : ControlMessageType[c] = type

(* message.rs:141-174: ControlMessageType::try_from(value) *)
TryFrom(value) ==
    IF AsUsize(value) \in DOMAIN ControlMessageType
    THEN Ok(<<ControlMessageType[AsUsize(value)]>>)
    ELSE UnknownMessageType

(* codec/message.rs:22-216: ControlMessageCodec::encode(item, dst); the
   payload goes to a scratch buffer first (also inside WithLengthCodec,
   codec/length.rs:21-30) *)
FrameEncode(m, dst) ==
    LET type == VarIntEncode(U64(TypeCode(m.type)), dst)
        payload == MessageEncode(m, <<>>)
        len == VarIntEncode(U64(Len(payload.buf)), type.buf)
    IN  IF type.res.tag # "Ok" THEN type
        ELSE IF payload.res.tag # "Ok" THEN [res |-> payload.res, buf |-> type.buf]
        ELSE IF len.res.tag # "Ok" THEN len
        ELSE [res |-> Ok(<<>>), buf |-> len.buf \o payload.buf]

(* codec/message.rs:223-323: ControlMessageCodec::decode(src) *)
FrameDecode(src) ==
    LET msg_type == VarIntDecode(src)
        len == VarIntDecode(msg_type.buf)
        payload == SplitCounted(len)
        type == TryFrom(msg_type.res.val[1])
        message == MessageDecode(type.val[1], payload.head)
    IN  IF Len(msg_type.res.val) = 0 THEN [res |-> Ok(None), buf |-> msg_type.buf]
        ELSE IF Len(len.res.val) = 0 THEN [res |-> Ok(None), buf |-> len.buf]
        ELSE IF Len(len.buf) < Count(len) THEN [res |-> Ok(None), buf |-> len.buf]
        ELSE IF type.tag # "Ok" THEN [res |-> type, buf |-> payload.rest]
        ELSE IF message.res.tag # "Ok" THEN [res |-> message.res, buf |-> payload.rest]
        ELSE IF message.buf # <<>>
             THEN [res |-> Io("InvalidData", "excess payload"), buf |-> payload.rest]
        ELSE [res |-> Ok(Some(message.res.val[1])), buf |-> payload.rest]

(* ---------------------------- codec calls ------------------------------ *)
(* u64 values on both sides of every class border of the encoding, the
   RFC 9000 examples, and values that do not fit: 0, 37, 63, 64, 15293,
   16383, 16384, 494878333, 2^30 - 1, 2^30, 151288809941952652, 2^62 - 1,
   2^62, 2^64 - 1 *)
VarIntItems ==
    {U64(0), U64(37), U64(63), U64(64), U64(15293), U64(16383), U64(16384),
     U64(494878333), U64(1073741823), <<0, 0, 0, 0, 64, 0, 0, 0>>,
     <<2, 25, 124, 94, 255, 20, 232, 140>>,
     <<63, 255, 255, 255, 255, 255, 255, 255>>, <<64, 0, 0, 0, 0, 0, 0, 0>>,
     <<255, 255, 255, 255, 255, 255, 255, 255>>}

(* buffers as they may arrive: a first byte of every length class, followed by
   up to eight more bytes, cut off anywhere *)
RawBuffers ==
    {SubSeq(<<first>> \o tail, 1, n) :
        first \in {0, 37, 63, 64, 127, 128, 191, 192, 255},
        tail \in {<<0, 0, 0, 0, 0, 0, 0, 1>>, <<64, 0, 149, 0, 0, 0, 255, 7>>,
                  <<255, 255, 255, 255, 255, 255, 255, 255>>},
        n \in 0..9}

Locations == {[group |-> U64(0), object |-> U64(0)], [group |-> U64(1), object |-> U64(64)]}

ParameterLists ==
    {<<>>, <<[parameter_type |-> U64(1), value |-> <<47>>]>>,
     <<[parameter_type |-> U64(2), value |-> <<5>>], [parameter_type |-> U64(3), value |-> <<>>]>>}

RequestIdValues == {U64(5), U64(42), U64(11259375), <<64, 0, 0, 0, 0, 0, 0, 0>>}

Messages ==
    {[type |-> "MaxRequestId", request_id |-> i] : i \in RequestIdValues}
    \cup {[type |-> "RequestsBlocked", maximum_request_id |-> i] : i \in RequestIdValues}
    \cup {[type |-> "FetchOk", request_id |-> U64(1), group_order |-> g, end_of_track |-> e,
           end_location |-> l, parameters |-> p] :
            g \in {0, 1, 2, 3}, e \in BOOLEAN, l \in Locations, p \in ParameterLists}
    \cup {[type |-> "Publish", request_id |-> U64(1), track_namespace |-> U64(0),
           track_name |-> n, track_alias |-> U64(2), group_order |-> g,
           content_exists |-> c, largest |-> l, forward |-> f, parameters |-> p] :
            n \in {<<>>, <<118, 105, 100>>}, g \in {0, 1, 2, 3}, c \in {0, 1, 2},
            l \in {None} \cup {Some(x) : x \in Locations}, f \in {0, 1, 2},
            p \in {<<>>, <<[parameter_type |-> U64(1), value |-> <<47>>]>>}}

(* a value to encode into an empty buffer, or bytes to decode *)
InitCodec ==
    /\ InitProgram
    /\ before = <<>>
    /\ cres = NoResult
    /\ \/ /\ item \in {[kind |-> "varint", value |-> v] : v \in VarIntItems}
                  \cup {[kind |-> "message", msg |-> m] : m \in Messages}
          /\ buf = <<>>
          /\ cpc = "encode"
       \/ /\ item = [kind |-> "bytes"]
          /\ buf \in RawBuffers
          /\ cpc = "decode"
    /\ wire = <<>>
    /\ stream = <<>>
    /\ frames = 0
    /\ decoded = <<>>

(* a codec call on buf that returns w.res and leaves w.buf *)
CodecCall(w, next) ==
    /\ before' = buf
    /\ buf' = w.buf
    /\ cres' = w.res
    /\ cpc' = next
    /\ UNCHANGED <<item, wire, stream, frames, decoded, programVars>>

(* VarInt.encode(v, &mut buf) *)
VarIntEncodeCall ==
    /\ cpc = "encode"
    /\ item.kind = "varint"
    /\ CodecCall(VarIntEncode(item.value, buf), "decode")

(* VarInt.decode(&mut buf) *)
VarIntDecodeCall ==
    /\ cpc = "decode"
    /\ item.kind \in {"varint", "bytes"}
    /\ CodecCall(VarIntDecode(buf), "done")

(* msg.encode(&mut buf) *)
MessageEncodeCall ==
    /\ cpc = "encode"
    /\ item.kind = "message"
    /\ CodecCall(MessageEncode(item.msg, buf), "decode")

(* M::decode(&mut buf) on what msg.encode has written *)
MessageDecodeCall ==
    /\ cpc = "decode"
    /\ item.kind = "message"
    /\ cres.tag = "Ok"
    /\ CodecCall(MessageDecode(item.msg.type, buf), "done")

NextCodec == VarIntEncodeCall \/ VarIntDecodeCall \/ MessageEncodeCall \/ MessageDecodeCall

SpecCodec == InitCodec /\ [][NextCodec]_vars

(* ---------------------------- control stream --------------------------- *)
(* One endpoint encodes control messages onto the stream with
   ControlMessageCodec::encode; the bytes reach the other endpoint in chunks,
   which are appended to its buffer; after each chunk it calls
   ControlMessageCodec::decode until that returns None. *)
MaxFrames == 2           \* messages encoded onto one stream

StreamMessages ==
    {[type |-> "MaxRequestId", request_id |-> U64(5)],
     [type |-> "MaxRequestId", request_id |-> <<64, 0, 0, 0, 0, 0, 0, 0>>],
     [type |-> "RequestsBlocked", maximum_request_id |-> U64(42)],
     [type |-> "FetchOk", request_id |-> U64(1), group_order |-> 1, end_of_track |-> TRUE,
      end_location |-> [group |-> U64(1), object |-> U64(64)], parameters |-> <<>>],
     [type |-> "FetchOk", request_id |-> U64(1), group_order |-> 0, end_of_track |-> FALSE,
      end_location |-> [group |-> U64(0), object |-> U64(0)], parameters |-> <<>>]}
    \cup {[type |-> "Publish", request_id |-> U64(1), track_namespace |-> U64(0),
           track_name |-> <<118>>, track_alias |-> U64(2), group_order |-> 1,
           content_exists |-> 0, largest |-> None, forward |-> f, parameters |-> <<>>] :
            f \in {1, 2}}

(* frames no encoder of this model wrote: MAX_REQUEST_ID and REQUESTS_BLOCKED
   frames whose length covers one or two bytes more than the varint; a frame
   of type 0x3f, which no message has; a FETCH_OK frame whose length covers
   one byte more than the message *)
RawFrames ==
    {<<21, 2, 5, 0>>, <<26, 3, 42, 1, 2>>, <<63, 1, 0>>, <<24, 7, 1, 1, 0, 0, 0, 0, 9>>}

InitStream ==
    /\ InitProgram
    /\ item = [kind |-> "stream"]
    /\ wire = <<>>
    /\ stream = <<>>
    /\ frames = 0
    /\ buf = <<>>
    /\ before = <<>>
    /\ decoded = <<>>
    /\ cres = NoResult
    /\ cpc = "encode"

(* the peer writes a frame of its own making onto the stream *)
StreamWrite ==
    /\ cpc = "encode"
    /\ frames < MaxFrames
    /\ \E raw \in RawFrames :
        /\ wire' = wire \o raw
        /\ stream' = wire \o raw
    /\ frames' = frames + 1
    /\ UNCHANGED <<item, buf, before, decoded, cres, cpc, programVars>>

(* ControlMessageCodec.encode(msg, &mut wire) *)
StreamEncode ==
    /\ cpc = "encode"
    /\ frames < MaxFrames
    /\ \E msg \in StreamMessages :
        LET w == FrameEncode(msg, wire)
        IN  /\ wire' = w.buf
            /\ stream' = w.buf
            /\ cres' = w.res
    /\ frames' = frames + 1
    /\ UNCHANGED <<item, buf, before, decoded, cpc, programVars>>

(* the next n bytes of the stream arrive and are appended to the buffer *)
Deliver ==
    /\ cpc \in {"encode", "read"}
    /\ \E n \in 1..Len(wire) :
        /\ buf' = buf \o SplitTo(wire, n).head
        /\ wire' = SplitTo(wire, n).rest
    /\ cpc' = "decode"
    /\ UNCHANGED <<item, stream, frames, before, decoded, cres, programVars>>

(* ControlMessageCodec.decode(&mut buf): a message is handed on and decode
   is called again; None waits for the next chunk; an error ends the
   reading *)
StreamDecode ==
    /\ cpc = "decode"
    /\ \E d \in {FrameDecode(buf)} :
           /\ before' = buf
           /\ buf' = d.buf
           /\ cres' = d.res
           /\ decoded' = IF d.res.tag = "Ok" THEN decoded \o d.res.val ELSE decoded
           /\ cpc' = IF d.res.tag # "Ok" THEN "failed"
                     ELSE IF d.res.val = None THEN "read" ELSE "decode"
    /\ UNCHANGED <<item, wire, stream, frames, programVars>>

NextStream == StreamEncode \/ StreamWrite \/ Deliver \/ StreamDecode

SpecStream == InitStream /\ [][NextStream]_vars

(* ---------------------------- SETUP exchange ------------------------- *)
(* CLIENT_SETUP and SERVER_SETUP messages go through the codec: each is
   encoded onto the stream, delivered in chunks and decoded.  The messages
   are those of the handshake test (versions 1 and 0xff00000d, parameters
   {1, "/"} and {2, varint 5}) and the same with no parameters. *)
SetupMessages ==
    {[type |-> "ClientSetup", supported_versions |-> <<U64(1)>>, setup_parameters |-> <<>>],
     [type |-> "ClientSetup",
      supported_versions |-> <<U64(1), <<0, 0, 0, 0, 255, 0, 0, 13>>>>,
      setup_parameters |-> <<[parameter_type |-> U64(1), value |-> <<47>>],
                             [parameter_type |-> U64(2), value |-> <<5>>]>>],
     [type |-> "ServerSetup", selected_version |-> U64(1), setup_parameters |-> <<>>],
     [type |-> "ServerSetup", selected_version |-> U64(1),
      setup_parameters |-> <<[parameter_type |-> U64(2), value |-> <<5>>]>>]}

(* ControlMessageCodec.encode(msg, &mut wire) of a SETUP message *)
SetupEncode ==
    /\ cpc = "encode"
    /\ frames < MaxFrames
    /\ \E msg \in SetupMessages :
        LET w == FrameEncode(msg, wire)
        IN  /\ wire' = w.buf
            /\ stream' = w.buf
            /\ cres' = w.res
    /\ frames' = frames + 1
    /\ UNCHANGED <<item, buf, before, decoded, cpc, programVars>>

NextSetup == SetupEncode \/ Deliver \/ StreamDecode

SpecSetup == InitStream /\ [][NextSetup]_vars

(* ---------------------------- control channel -------------------------- *)
MaxSends == 3            \* send_control calls made on one session

(* session.rs:27: mpsc::channel(16) *)
ControlCapacity == 16

Transport(e) == [tag |-> "Transport", val |-> <<e>>]

(* Session::send_control(msg): control_tx.send(msg).await with the SendError
   mapped; send waits while the channel is full and open *)
SendControl ==
    /\ sends < MaxSends
    /\ \E msg \in StreamMessages :
        IF control_rx = "dropped"
        THEN /\ sent' = [msg |-> Some(msg), res |-> Transport("SendError")]
             /\ UNCHANGED control_tx
        ELSE /\ Len(control_tx) < ControlCapacity
             /\ control_tx' = Append(control_tx, msg)
             /\ sent' = [msg |-> Some(msg), res |-> Ok(<<>>)]
    /\ sends' = sends + 1
    /\ UNCHANGED <<control_rx, sessionVars, trackVars, threadVars, ghostVars,
                   codecVars, mockVars>>

(* the owner of the receiver takes the next message: rx.recv().await *)
ControlRecv ==
    /\ control_rx = "open"
    /\ control_tx # <<>>
    /\ control_tx' = Tail(control_tx)
    /\ UNCHANGED <<control_rx, sent, sends, sessionVars, trackVars, threadVars,
                   ghostVars, codecVars, mockVars>>

(* the owner of the receiver drops it: the channel is closed and the
   messages still in it are dropped *)
ControlDrop ==
    /\ control_rx = "open"
    /\ control_rx' = "dropped"
    /\ control_tx' = <<>>
    /\ UNCHANGED <<sent, sends, sessionVars, trackVars, threadVars, ghostVars,
                   codecVars, mockVars>>

NextControl == SendControl \/ ControlRecv \/ ControlDrop

SpecControl == Init /\ [][NextControl]_vars

(* ---------------------------- mock transport --------------------------- *)
MaxChunk == 2            \* bytes one poll_write or poll_read moves

(* mock.rs:109,125,126: duplex(1024) *)
DuplexCapacity == 1024

(* "ping", "pong", "hello" *)
Payloads == {<<112, 105, 110, 103>>, <<112, 111, 110, 103>>, <<104, 101, 108, 108, 111>>}

(* duplex(): what is written on one stream of a pair is read on the other.
   open_uni_stream makes (local, remote), open_bi_stream makes (r1, r2) and
   (w1, w2) *)
Peer(e) ==
    CASE e = "local" -> "remote"
      [] e = "remote" -> "local"
      [] e = "r1" -> "r2"
      [] e = "r2" -> "r1"
      [] e = "w1" -> "w2"
      [] e = "w2" -> "w1"

Least(a, b) == IF a < b THEN a ELSE b

MockUnchanged == UNCHANGED <<sessionVars, trackVars, threadVars, ghostVars, codecVars,
                             channelVars>>

(* A.open_uni_stream(): the remote stream is sent to B, the local one is
   A's; A then writes its payload on it *)
OpenUni ==
    /\ halves["A"] = NoHalves
    /\ \E hello \in Payloads : outgoing' = [outgoing EXCEPT !["A"] = hello]
    /\ incoming_unis' = Append(incoming_unis, "remote")
    /\ halves' = [halves EXCEPT !["A"] = [read |-> "local", write |-> "local"]]
    /\ wpc' = [wpc EXCEPT !["A"] = "write"]
    /\ UNCHANGED <<incoming_bis, inbox, shut, rpc, wr, rd>>
    /\ MockUnchanged

(* B.accept_uni_stream(): B then reads the stream to its end *)
AcceptUni ==
    /\ incoming_unis # <<>>
    /\ halves' = [halves EXCEPT !["B"] = [read |-> Head(incoming_unis),
                                          write |-> Head(incoming_unis)]]
    /\ incoming_unis' = Tail(incoming_unis)
    /\ rpc' = [rpc EXCEPT !["B"] = "read"]
    /\ UNCHANGED <<incoming_bis, inbox, shut, wpc, wr, rd, outgoing>>
    /\ MockUnchanged

(* A.open_bi_stream() and split(): (r2, w2) is sent to B, A reads r1 and
   writes w1 *)
OpenBi ==
    /\ halves["A"] = NoHalves
    /\ \E ping \in Payloads, pong \in Payloads :
        outgoing' = [outgoing EXCEPT !["A"] = ping, !["B"] = pong]
    /\ incoming_bis' = Append(incoming_bis, <<"r2", "w2">>)
    /\ halves' = [halves EXCEPT !["A"] = [read |-> "r1", write |-> "w1"]]
    /\ wpc' = [wpc EXCEPT !["A"] = "write"]
    /\ rpc' = [rpc EXCEPT !["A"] = "read"]
    /\ UNCHANGED <<incoming_unis, inbox, shut, wr, rd>>
    /\ MockUnchanged

(* B.accept_bi_stream() and split(): of the pair (r, w) received, B reads r
   and writes w *)
AcceptBi ==
    /\ incoming_bis # <<>>
    /\ halves' = [halves EXCEPT !["B"] = [read |-> Head(incoming_bis)[1],
                                          write |-> Head(incoming_bis)[2]]]
    /\ incoming_bis' = Tail(incoming_bis)
    /\ wpc' = [wpc EXCEPT !["B"] = "write"]
    /\ rpc' = [rpc EXCEPT !["B"] = "read"]
    /\ UNCHANGED <<incoming_unis, inbox, shut, wr, rd, outgoing>>
    /\ MockUnchanged

(* one poll_write of write_all on p's write half: the bytes go to the peer
   of that stream *)
Write(p) ==
    /\ wpc[p] = "write"
    /\ LET to == Peer(halves[p].write)
           room == Least(Len(outgoing[p]) - wr[p], DuplexCapacity - Len(inbox[to]))
       IN  \E n \in 1..Least(MaxChunk, room) :
            /\ inbox' = [inbox EXCEPT ![to] = @ \o SubSeq(outgoing[p], wr[p] + 1, wr[p] + n)]
            /\ wr' = [wr EXCEPT ![p] = @ + n]
            /\ wpc' = [wpc EXCEPT ![p] = IF wr[p] + n = Len(outgoing[p])
                                         THEN "shutdown" ELSE "write"]
    /\ UNCHANGED <<incoming_unis, incoming_bis, shut, halves, rpc, rd, outgoing>>
    /\ MockUnchanged

(* shutdown() of p's write half *)
Shutdown(p) ==
    /\ wpc[p] = "shutdown"
    /\ shut' = shut \cup {halves[p].write}
    /\ wpc' = [wpc EXCEPT ![p] = "done"]
    /\ UNCHANGED <<incoming_unis, incoming_bis, inbox, halves, rpc, wr, rd, outgoing>>
    /\ MockUnchanged

(* one poll_read of read_to_end on p's read half that finds bytes *)
Read(p) ==
    /\ rpc[p] = "read"
    /\ LET from == halves[p].read
       IN  \E n \in 1..Least(MaxChunk, Len(inbox[from])) :
            /\ rd' = [rd EXCEPT ![p] = @ \o SubSeq(inbox[from], 1, n)]
            /\ inbox' = [inbox EXCEPT ![from] = SubSeq(@, n + 1, Len(@))]
    /\ UNCHANGED <<incoming_unis, incoming_bis, shut, halves, wpc, rpc, wr, outgoing>>
    /\ MockUnchanged

(* the poll_read that finds no bytes and the peer's write side shut down:
   read_to_end returns *)
ReadEnd(p) ==
    /\ rpc[p] = "read"
    /\ inbox[halves[p].read] = <<>>
    /\ Peer(halves[p].read) \in shut
    /\ rpc' = [rpc EXCEPT ![p] = "done"]
    /\ UNCHANGED <<incoming_unis, incoming_bis, inbox, shut, halves, wpc, wr, rd, outgoing>>
    /\ MockUnchanged

NextMock ==
    \/ OpenUni
    \/ AcceptUni
    \/ OpenBi
    \/ AcceptBi
    \/ \E p \in Endpoints : Write(p)
    \/ \E p \in Endpoints : Shutdown(p)
    \/ \E p \in Endpoints : Read(p)
    \/ \E p \in Endpoints : ReadEnd(p)

(* the runtime polls every task that can make progress *)
SpecMock == Init /\ [][NextMock]_vars /\ WF_vars(NextMock)

(* ---------------------------- claims ----------------------------------- *)
IsCall(o) == last.op = o
Failed(tag) == last.res.tag = tag

(* C1: on one Session at most one handle_goaway call ever returns Ok, and
   every handle_goaway call that starts when received_goaway is already true
   returns ProtocolViolation; the flag is set once Ok was returned. *)
C1_AtMostOneGoaway ==
    /\ goaway_oks <= 1
    /\ goaway_oks = 1 => received_goaway
    /\ IsCall("handle_goaway") /\ last.pre.received => Failed("ProtocolViolation")

C1_Witness ==
    /\ IsCall("handle_goaway")
    /\ last.pre.received
    /\ Failed("ProtocolViolation")
    /\ goaway_oks = 1

(* C2: under concurrent callers every id new_request_id returns is below
   max_request_id, and request_counter <= max_request_id in every state. *)
C2_CounterWithinLimit ==
    /\ request_counter <= max_request_id
    /\ IsCall("new_request_id") /\ last.res.tag = "Ok" => last.res.val[1] < max_request_id

(* C3: under concurrent handle_max_request_id calls the stored
   max_request_id never decreases, and a call stores its new_max (and returns
   Ok) only if new_max exceeds the value stored at that moment. *)
C3_MaxMonotone ==
    [][/\ max_request_id' >= max_request_id
       /\ \A t \in Threads :
            pc[t] = "hm_store" /\ pc'[t] # "hm_store" => arg[t].id > max_request_id]_vars

(* C4: Session::handle_max_request_id returns Ok and stores msg.request_id
   iff it exceeds the stored max_request_id; otherwise it returns
   ProtocolViolation and leaves the value as it was; so the stored value
   never decreases and strictly increases with every Ok. *)
C4_SessionMaxStrict ==
    [][/\ session_max' >= session_max
       /\ \A t \in Threads :
            pc[t] = "shm_lock" /\ pc'[t] # "shm_lock" =>
                IF arg[t].id > session_max
                THEN last'.res.tag = "Ok" /\ session_max' = arg[t].id
                ELSE last'.res.tag = "ProtocolViolation" /\ session_max' = session_max]_vars

C4_Witness ==
    /\ IsCall("session_handle_max_request_id")
    /\ Failed("ProtocolViolation")
    /\ last.arg.id = session_max
    /\ session_max > 1

(* C5: with a single caller the ids handed out are 0, 1, 2, ... in order,
   never more of them than max_request_id; a call fails with TooManyRequests
   only when request_counter has reached max_request_id, and leaves it there;
   a successful call returns the id before the increment. *)
C5_ExactlyMaxIds ==
    /\ request_counter <= max_request_id
    /\ Len(returned) = request_counter
    /\ \A i \in 1..Len(returned) : returned[i] = i - 1
    /\ IsCall("new_request_id") =>
         \/ last.res.tag = "Ok" /\ last.res.val = <<request_counter - 1>>
         \/ Failed("TooManyRequests") /\ request_counter = max_request_id

C5_Witness ==
    /\ IsCall("new_request_id")
    /\ Failed("TooManyRequests")
    /\ returned = <<0, 1>>

UsesAlias == IsCall("assign_alias") \/ IsCall("set_track_alias") \/ IsCall("handle_subscribe_ok")

(* C6 as stated: every call that uses an alias bound before the call started
   fails with DuplicateTrackAlias(alias). *)
C6_AlwaysDuplicate ==
    UsesAlias /\ last.pre.bound =>
        Failed("DuplicateTrackAlias") /\ last.res.val = <<last.arg.alias>>

(* C6 amended: once an alias is bound, a later assign_alias or
   set_track_alias with it fails with DuplicateTrackAlias(alias), a later
   handle_subscribe_ok with it fails with DuplicateTrackAlias(alias) when its
   request id is outstanding and with ProtocolViolation("unknown request")
   when it is not; the alias keeps the name of its first binding, which is
   what resolve_alias returns. *)
C6_AliasBoundOnce ==
    /\ [](/\ (IsCall("assign_alias") \/ IsCall("set_track_alias")) /\ last.pre.bound =>
              Failed("DuplicateTrackAlias") /\ last.res.val = <<last.arg.alias>>
          /\ IsCall("handle_subscribe_ok") /\ last.pre.bound =>
              IF last.pre.req # None
              THEN Failed("DuplicateTrackAlias") /\ last.res.val = <<last.arg.alias>>
              ELSE Failed("ProtocolViolation") /\ last.res.val = <<"unknown request">>
          /\ IsCall("resolve_alias") /\ last.pre.bound =>
              last.res.val = Lookup(aliases, last.arg.alias))
    /\ [][\A a \in DOMAIN aliases : a \in DOMAIN aliases' /\ aliases'[a] = aliases[a]]_vars

C6_Witness ==
    /\ IsCall("handle_subscribe_ok")
    /\ last.pre.bound
    /\ last.pre.req # None
    /\ Failed("DuplicateTrackAlias")

(* C7: no two distinct aliases are bound to the same track name. *)
C7_AliasesInjective ==
    \A a, b \in DOMAIN aliases : aliases[a] = aliases[b] => a = b

(* C8: subscribe_track(name) returning id leaves requests[id] = name; a
   handle_subscribe_ok for an outstanding id and an unbound alias A then
   returns Ok, binds A to name, sets the track's alias to Some(A) and takes
   id out of requests. *)
C8_SubscribeOkBinds ==
    /\ IsCall("subscribe_track") /\ last.res.tag = "Ok" =>
         /\ last.res.val[1] \in DOMAIN requests
         /\ requests[last.res.val[1]] = last.arg.name
    /\ IsCall("handle_subscribe_ok") /\ last.pre.req # None /\ ~last.pre.bound =>
         /\ last.res.tag = "Ok"
         /\ Lookup(aliases, last.arg.alias) = last.pre.req
         /\ last.pre.req[1] \in DOMAIN tracks
         /\ tracks[last.pre.req[1]].alias = Some(last.arg.alias)
         /\ last.arg.id \notin DOMAIN requests

C8_Witness ==
    /\ IsCall("handle_subscribe_ok")
    /\ last.pre.req = Some("audio")
    /\ ~last.pre.bound
    /\ last.res.tag = "Ok"

(* C9: a handle_subscribe_ok whose request id is not in requests returns
   ProtocolViolation("unknown request") and changes neither requests,
   aliases nor tracks; of the calls made for one request id at most one
   finds it. *)
C9_UnknownRequest ==
    /\ [](\A i \in DOMAIN lookups : lookups[i] <= 1)
    /\ [][\A t \in Threads :
            pc[t] = "hso_remove" /\ pc'[t] # "hso_remove" /\ arg[t].id \notin DOMAIN requests =>
                /\ last'.res.tag = "ProtocolViolation"
                /\ last'.res.val = <<"unknown request">>
                /\ UNCHANGED <<requests, aliases, tracks>>]_vars

C9_Witness ==
    /\ IsCall("handle_subscribe_ok")
    /\ Failed("ProtocolViolation")
    /\ last.arg.id \in DOMAIN lookups
    /\ \E t \in Threads : op[t] = "handle_subscribe_ok" /\ arg[t].id = last.arg.id

(* C10: handle_goaway fails with ProtocolViolation whenever is_server holds
   and the message carries a URI; a first GOAWAY is accepted when is_server
   is false, with or without a URI, and when is_server holds and there is no
   URI. *)
C10_UriOnlyFromServer ==
    IsCall("handle_goaway") =>
        /\ last.arg.is_server /\ last.arg.uri => Failed("ProtocolViolation")
        /\ ~last.pre.received /\ ~(last.arg.is_server /\ last.arg.uri) => last.res.tag = "Ok"

C10_Witness ==
    /\ IsCall("handle_goaway")
    /\ ~last.arg.is_server
    /\ last.arg.uri
    /\ last.res.tag = "Ok"

(* session.rs:11-15: the order in which enum State lists its values *)
StateRank(s) == CASE s = "Initializing" -> 0 [] s = "Active" -> 1 [] s = "Closing" -> 2

(* C11: Session.state only moves forward in the order Initializing, Active,
   Closing; the step in which a handle_goaway call returns Ok leaves
   received_goaway true and state Closing; and no step changes state once it
   is Closing. *)
C11_StateMonotone ==
    [][/\ StateRank(state') >= StateRank(state)
       /\ state = "Closing" => state' = "Closing"
       /\ \A t \in Threads :
            op[t] = "handle_goaway" /\ pc'[t] = "idle" /\ last'.res.tag = "Ok" =>
                received_goaway' /\ state' = "Closing"]_vars

C11_Witness ==
    /\ state = "Closing"
    /\ received_goaway
    /\ IsCall("session_handle_max_request_id")
    /\ last.res.tag = "Ok"
    /\ goaway_oks = 1

(* a < b for two u64 values *)
Less(a, b) == \E i \in 1..8 : a[i] < b[i] /\ \A j \in 1..(i - 1) : a[j] = b[j]

(* the number of bytes of the shortest encoding of v: 1 below 2^6, 2 below
   2^14, 4 below 2^30, 8 otherwise *)
ShortestLen(v) ==
    IF Less(v, U64(64)) THEN 1
    ELSE IF Less(v, U64(16384)) THEN 2
    ELSE IF Less(v, <<0, 0, 0, 0, 64, 0, 0, 0>>) THEN 4
    ELSE 8

(* C17: for v below 2^62 VarInt::encode returns Ok and writes exactly the
   shortest of the 1, 2, 4 and 8 byte forms that holds v (the RFC 9000
   examples among them), and VarInt::decode of those bytes returns v and
   leaves the buffer empty; for v of 2^62 or more encode returns VarIntRange
   and writes nothing. *)
C17_VarIntShortest ==
    item.kind = "varint" /\ cpc # "encode" =>
        LET written == IF cpc = "decode" THEN buf ELSE before
        IN  IF Less(item.value, <<64, 0, 0, 0, 0, 0, 0, 0>>)
            THEN /\ Len(written) = ShortestLen(item.value)
                 /\ written[1] \div 64 = CASE Len(written) = 1 -> 0 [] Len(written) = 2 -> 1
                                            [] Len(written) = 4 -> 2 [] Len(written) = 8 -> 3
                 /\ cpc = "decode" => cres.tag = "Ok" /\ before = <<>>
                 /\ cpc = "done" => cres.tag = "Ok" /\ cres.val = Some(item.value) /\ buf = <<>>
                 /\ item.value = U64(37) => written = <<37>>
                 /\ item.value = U64(15293) => written = <<123, 189>>
                 /\ item.value = U64(494878333) => written = <<157, 127, 62, 125>>
                 /\ item.value = <<2, 25, 124, 94, 255, 20, 232, 140>> =>
                        written = <<194, 25, 124, 94, 255, 20, 232, 140>>
            ELSE /\ written = <<>>
                 /\ cpc = "decode" => cres.tag = "VarIntRange"

C17_Witness ==
    /\ item.kind = "varint"
    /\ item.value = <<0, 0, 0, 0, 64, 0, 0, 0>>
    /\ cpc = "done"
    /\ before = <<192, 0, 0, 0, 64, 0, 0, 0>>
    /\ cres.val = Some(item.value)
    /\ buf = <<>>

(* C18: VarInt::decode takes the length 1, 2, 4 or 8 from the top two bits
   of the first byte; on an empty buffer or one shorter than that length it
   returns None and leaves the buffer as it was; otherwise it removes exactly
   that many bytes and returns the number they hold after the two prefix
   bits, whether or not a shorter form of that number exists. *)
C18_VarIntDecodeFrame ==
    item.kind \in {"bytes", "varint"} /\ cpc = "done" =>
        LET len == IF before = <<>> THEN 1
                   ELSE CASE before[1] < 64 -> 1 [] before[1] \in 64..127 -> 2
                          [] before[1] \in 128..191 -> 4 [] before[1] >= 192 -> 8
        IN  /\ cres.tag = "Ok"
            /\ IF Len(before) < len
               THEN cres.val = None /\ buf = before
               ELSE /\ before = SubSeq(before, 1, len) \o buf
                    /\ cres.val = Some([i \in 1..(8 - len) |-> 0] \o <<before[1] % 64>>
                                       \o SubSeq(before, 2, len))

C18_Witness ==
    /\ item.kind = "bytes"
    /\ cpc = "done"
    /\ before = <<128, 0, 0, 0, 0, 0, 0>>
    /\ cres.val = Some(U64(0))
    /\ buf = <<0, 0, 0>>

(* C12: a ControlMessageCodec::decode call that returns Ok(None) leaves the
   buffer exactly as it found it. *)
C12_NoneLeavesBuffer ==
    [][cpc = "decode" /\ cres'.tag = "Ok" /\ cres'.val = None => buf' = buf]_vars

(* decoding a whole stream at once: ControlMessageCodec::decode is called on
   the buffer that holds all of it until it returns no further message *)
RECURSIVE DecodeAll(_, _)
DecodeAll(src, acc) ==
    LET d == FrameDecode(src)
    IN  IF d.res.tag = "Ok" /\ d.res.val # None
        THEN DecodeAll(d.buf, Append(acc, d.res.val[1]))
        ELSE [messages |-> acc, res |-> d.res, buf |-> d.buf]

(* C13: when a stream made of whole valid frames (decoded at once it gives
   at least one message, no error, and an empty buffer) has been delivered in
   chunks, with decode called after each chunk until it returns None, the
   messages returned are those of decoding it at once, and the buffer is
   empty. *)
C13_ChunkedAsWhole ==
    LET whole == DecodeAll(stream, <<>>)
    IN  /\ wire = <<>>
        /\ cpc = "read" \/ (cpc = "failed" /\ cres.tag # "outside")
        /\ whole.res.tag = "Ok"
        /\ whole.buf = <<>>
        /\ whole.messages # <<>>
        => decoded = whole.messages /\ buf = <<>>

(* C14: whenever encode accepts a message and decode returns a message from
   the bytes it wrote, the message returned equals the one encoded and the
   buffer is left empty. *)
C14_RoundTrip ==
    item.kind = "message" /\ cpc = "done" /\ cres.tag = "Ok" =>
        /\ cres.val = <<item.msg>>
        /\ buf = <<>>

(* C15: decode never rejects a payload that encode of the same message type
   has written and returned Ok for: every field constraint decode tests,
   encode has tested before. *)
C15_EncodeEnforces ==
    item.kind = "message" /\ cpc = "done" => cres.tag = "Ok"

(* a whole frame of a known type whose message decoder returns Ok and leaves
   bytes of the payload unread *)
ExcessPayload(src) ==
    LET msg_type == VarIntDecode(src)
        len == VarIntDecode(msg_type.buf)
    IN  /\ Len(msg_type.res.val) = 1
        /\ Len(len.res.val) = 1
        /\ Len(len.buf) >= Count(len)
        /\ TryFrom(msg_type.res.val[1]).tag = "Ok"
        /\ LET message == MessageDecode(TryFrom(msg_type.res.val[1]).val[1],
                                        SplitCounted(len).head)
           IN  message.res.tag = "Ok" /\ message.buf # <<>>

(* C16: a decode of a frame whose payload holds bytes after the message
   fails with a protocol-violation error and hands no message on. *)
C16_ExcessIsProtocolViolation ==
    [][cpc = "decode" /\ ExcessPayload(buf) =>
           cres'.tag = "ProtocolViolation" /\ decoded' = decoded]_vars

(* C19: a send_control call made after the receiver of the control channel
   was dropped returns SessionClosed and leaves the channel as it was; one
   made while the receiver is there returns Ok and appends its message, and
   nothing else, to the channel. *)
C19_SendControl ==
    [][sends' # sends =>
         IF control_rx = "dropped"
         THEN sent'.res.tag = "SessionClosed" /\ control_tx' = control_tx
         ELSE sent'.res.tag = "Ok" /\ control_tx' = control_tx \o sent'.msg]_vars

(* C20: once A has opened a bidirectional stream and B has accepted it,
   B's read_to_end returns with the bytes A wrote and A's read_to_end
   returns with the bytes B wrote. *)
C20_BiStreamRoundTrip ==
    (rpc["A"] = "read" /\ rpc["B"] = "read") ~>
        (/\ rpc["A"] = "done" /\ rd["A"] = outgoing["B"]
         /\ rpc["B"] = "done" /\ rd["B"] = outgoing["A"])

(* C24: a handle_goaway call rejected for its URI leaves received_goaway
   false, so that whenever no call is under way received_goaway implies
   state Closing, and a first GOAWAY without URI that comes after a rejected
   one is accepted. *)
C24_RejectedGoawayLeavesSession ==
    /\ IsCall("handle_goaway") /\ ~last.pre.received /\ Failed("ProtocolViolation") =>
          ~received_goaway
    /\ (\A t \in Threads : pc[t] = "idle") /\ received_goaway => state = "Closing"
    /\ IsCall("handle_goaway") /\ goaway_oks = 0 /\ ~(last.arg.is_server /\ last.arg.uri) =>
          last.res.tag = "Ok"

(* C23: once the session is in state Closing no request id is allocated
   any more (request_counter stays as it is and requests gets no new key)
   and send_control enqueues nothing. *)
C23_ClosingSuppressesRequests ==
    [][state = "Closing" =>
         /\ request_counter' = request_counter
         /\ DOMAIN requests' \subseteq DOMAIN requests
         /\ Len(control_tx') <= Len(control_tx)]_vars

(* C27: a handle_subscribe_ok call that returns an error changes neither
   requests, aliases nor tracks; after a DuplicateTrackAlias failure the
   request id of the call is still in requests. *)
C27_FailedSubscribeOkKeepsRequest ==
    [][op[1] = "handle_subscribe_ok" /\ pc'[1] = "idle"
       /\ last'.res.tag \in {"ProtocolViolation", "DuplicateTrackAlias"} =>
           /\ UNCHANGED <<aliases, tracks>>
           /\ last'.pre.req # None =>
                 /\ last'.arg.id \in DOMAIN requests'
                 /\ requests'[last'.arg.id] = last'.pre.req[1]]_vars

(* C28: a subscribe_track call made when request_counter has reached
   max_request_id fails with TooManyRequests and none of its steps changes
   tracks, requests or request_counter. *)
C28_FailedSubscribeLeavesManager ==
    [][op[1] = "subscribe_track" /\ request_counter >= max_request_id =>
         /\ UNCHANGED <<tracks, requests, request_counter>>
         /\ pc'[1] = "idle" => last'.res.tag = "TooManyRequests"]_vars

(* C25: no step of Session::handle_max_request_id changes the track
   manager's max_request_id or request_counter, and no step of
   TrackManager::handle_max_request_id changes the session's
   max_request_id. *)
C25_IndependentLimits ==
    [][/\ op[1] = "session_handle_max_request_id" =>
            UNCHANGED <<max_request_id, request_counter>>
       /\ op[1] = "handle_max_request_id" => UNCHANGED session_max]_vars

C25_Witness ==
    /\ IsCall("session_handle_max_request_id")
    /\ last.res.tag = "Ok"
    /\ session_max = 2
    /\ max_request_id = 1
    /\ request_counter = 1

(* C26: no step takes a name out of tracks, and the add_track step of a
   call (add_track or subscribe_track) whose name is already in tracks
   leaves every TrackState as it is. *)
C26_AddTrackIdempotent ==
    [][/\ \A n \in DOMAIN tracks : n \in DOMAIN tracks'
       /\ pc[1] = "add_track" /\ arg[1].name \in DOMAIN tracks => tracks' = tracks]_vars

C26_Witness ==
    /\ IsCall("add_track")
    /\ last.arg.name \in DOMAIN tracks
    /\ tracks[last.arg.name].alias # None
    /\ tracks[last.arg.name].subscribers # <<>>

(* C30: under concurrent callers the ids fetch_add hands out are pairwise
   distinct, each is the value request_counter had right before its
   increment, request_counter never decreases, and subscribe_track never
   writes a requests key that is already there. *)
C30_DistinctRequestIds ==
    /\ [](\A i, j \in 1..Len(returned) : returned[i] = returned[j] => i = j)
    /\ [][/\ request_counter' >= request_counter
          /\ \A t \in Threads :
               /\ pc[t] = "nr_fetch_add" /\ pc'[t] # "nr_fetch_add" =>
                    /\ request_counter' = request_counter + 1
                    /\ op[t] = "new_request_id" => last'.res = Ok(<<request_counter>>)
                    /\ op[t] = "subscribe_track" => loc'[t].request_id = request_counter
               /\ pc[t] = "st_insert" /\ pc'[t] # "st_insert" =>
                    loc[t].request_id \notin DOMAIN requests]_vars

C30_Witness ==
    \E t, u \in Threads :
        /\ t # u
        /\ pc[t] = "st_insert"
        /\ pc[u] = "st_insert"
        /\ loc[t].request_id # loc[u].request_id

(* C29: a ControlMessageCodec::encode call that returns an error leaves the
   destination buffer as it was. *)
C29_FailedEncodeLeavesBuffer ==
    [][/\ cres.tag \in {"none", "Ok"}
       /\ cres'.tag \notin {"none", "Ok"}
       /\ frames' = frames + 1
       => wire' = wire]_vars

(* C21: once a CLIENT_SETUP and then a SERVER_SETUP have been encoded,
   delivered and decoded, and nothing of the stream is left unread, the
   session is in state Active. *)
C21_ActiveAfterSetup ==
    /\ wire = <<>>
    /\ buf = <<>>
    /\ Len(decoded) = 2
    /\ decoded[1].type = "ClientSetup"
    /\ decoded[2].type = "ServerSetup"
    => state = "Active"

====
